---- MODULE Spec2Model ----
(***************************************************************************)
(* Model of the Cluster Telemetry logs processor, ct_logs_processor.py:    *)
(* get_histograms (extraction of the data literals from a log),            *)
(* string_to_list (decoding), get_run_results (the fold into rows),        *)
(* write_results_to_csv, transform_single_file and transform_and_merge.    *)
(*                                                                         *)
(* Strings whose characters the code looks at (stories, avg, count,        *)
(* storysetRepeats, traceUrls, csv cells) are sequences of one-character   *)
(* strings.  Dictionary keys that the code treats as opaque (metric and    *)
(* column names) are TLA+ strings.  A float is modelled by its value in    *)
(* tenths (1.5 is 15).                                                     *)
(***************************************************************************)
EXTENDS Integers, Sequences, FiniteSets, TLC

VARIABLES
  \* ---- get_histograms (SpecExtract) ----
  file,            \* the lines of the input file, in order
  eof_newline,     \* whether the last line of the file ends with "\n"
  pos,             \* the number of lines f.readline() has consumed
  logs,            \* the local `logs`: the lines of the text read by f.read()
  logs_nl,         \* whether `logs` ends with "\n"
  flat,            \* `logs` after the newlines are removed: one token string
  found,           \* the result of re.findall, not yet decoded
  output,          \* the local `output`: the decoded histograms
  xpc,             \* position in get_histograms
  \* ---- get_run_results / write_results_to_csv (SpecAgg) ----
  ct_histograms,   \* the argument of get_run_results
  idx,             \* the number of histograms the for loop has consumed
  agg,             \* the locals url_to_run_index_to_rows, fieldnames, stats
  apc,             \* position: "fold", "returned", "raised", "written"
  csv_out,         \* the file write_results_to_csv wrote
  \* ---- transform_single_file / transform_and_merge (SpecPipe) ----
  merge,           \* args.merge given
  input_files,     \* args.input_files
  cur,             \* the number of input files processed
  all_results,     \* the local all_results (merge mode)
  pending,         \* merge mode: the rows not yet handed to the writer
  disk,            \* the output files: path -> table, written so far
  writes,          \* the history of output files opened, in order
  failed,          \* 0, or the index of the input file whose processing raised
  ppc              \* position: "process", "open", "rows", "done", "aborted"

xvars == <<file, eof_newline, pos, logs, logs_nl, flat, found, output, xpc>>
avars == <<ct_histograms, idx, agg, apc, csv_out>>
pvars == <<merge, input_files, cur, all_results, pending, disk, writes, failed, ppc>>
vars == <<xvars, avars, pvars>>

-----------------------------------------------------------------------------
(* Bounds of the model.                                                    *)
MaxRecs == 2
MaxLines == 3
MaxFiles == 2

-----------------------------------------------------------------------------
(* Character strings.                                                      *)

\* The code point of a character, for Python's string comparison.
Ord(c) ==
  CASE c = " " -> 32 [] c = "#" -> 35 [] c = "(" -> 40 [] c = ")" -> 41
    [] c = "-" -> 45 [] c = "." -> 46
    [] c = "0" -> 48 [] c = "1" -> 49 [] c = "2" -> 50 [] c = "3" -> 51
    [] c = "4" -> 52 [] c = "5" -> 53 [] c = "6" -> 54 [] c = "7" -> 55
    [] c = "8" -> 56 [] c = "9" -> 57
    [] c = "a" -> 97 [] c = "b" -> 98 [] c = "c" -> 99 [] c = "t" -> 116
    [] OTHER -> 120

DigitVal(c) == Ord(c) - 48

DigitChar(d) ==
  CASE d = 0 -> "0" [] d = 1 -> "1" [] d = 2 -> "2" [] d = 3 -> "3" [] d = 4 -> "4"
    [] d = 5 -> "5" [] d = 6 -> "6" [] d = 7 -> "7" [] d = 8 -> "8" [] OTHER -> "9"

\* Python's a > b on strings: lexicographic by code point, a proper prefix is less.
RECURSIVE StrGt(_, _)
StrGt(a, b) ==
  IF a = <<>> THEN FALSE
  ELSE IF b = <<>> THEN TRUE
  ELSE IF Ord(Head(a)) # Ord(Head(b)) THEN Ord(Head(a)) > Ord(Head(b))
  ELSE StrGt(Tail(a), Tail(b))

RECURSIVE DigitsVal(_, _)
DigitsVal(s, acc) ==
  IF s = <<>> THEN acc ELSE DigitsVal(Tail(s), 10 * acc + DigitVal(Head(s)))

\* int(s) for an optionally signed decimal numeral.
IntOf(s) ==
  IF s # <<>> /\ Head(s) = "-" THEN 0 - DigitsVal(Tail(s), 0) ELSE DigitsVal(s, 0)

\* The index of the first occurrence of character c in s, or Len(s) + 1.
RECURSIVE IndexOf(_, _, _)
IndexOf(s, c, i) ==
  IF i > Len(s) THEN i ELSE IF s[i] = c THEN i ELSE IndexOf(s, c, i + 1)

\* float(s) in tenths, for a numeral with at most one digit after the point.
FloatOf(s) ==
  LET dot == IndexOf(s, ".", 1)
      whole == SubSeq(s, 1, dot - 1)
      frac == IF dot < Len(s) THEN DigitVal(s[dot + 1]) ELSE 0
  IN  10 * IntOf(whole) + frac

RECURSIVE IntStr(_)
IntStr(n) ==
  IF n < 10 THEN <<DigitChar(n)>> ELSE Append(IntStr(n \div 10), DigitChar(n % 10))

\* str(x) of a float x >= 0 given in tenths: always with a point and one digit.
FormatFloat(v) == IntStr(v \div 10) \o <<".", DigitChar(v % 10)>>

\* s.split("(")[0]
SplitFirst(s) == SubSeq(s, 1, IndexOf(s, "(", 1) - 1)

RECURSIVE LStrip(_)
LStrip(s) == IF s # <<>> /\ Head(s) = " " THEN LStrip(Tail(s)) ELSE s

RECURSIVE RStrip(_)
RStrip(s) ==
  IF s # <<>> /\ s[Len(s)] = " " THEN RStrip(SubSeq(s, 1, Len(s) - 1)) ELSE s

\* s.strip()
Strip(s) == RStrip(LStrip(s))

-----------------------------------------------------------------------------
(* Histograms, rows and the state of get_run_results.                      *)

\* The metric names of the sample histograms; the last is also a column the
\* fold writes itself.
Names == {"FCP", "LCP", "page_name"}

\* A decoded histogram: the six keys get_run_results reads.
Hist(name, avg, count, stories, repeats, trace) ==
  [name |-> name, avg |-> avg, count |-> count, stories |-> stories,
   storysetRepeats |-> repeats, traceUrls |-> trace]

\* A value stored in a row: a str (page_name, trace_url) or a float (a metric).
Str(s) == [k |-> "str", s |-> s, f |-> 0]
Flt(v) == [k |-> "float", s |-> <<>>, f |-> v]

\* dict(): a row with no key.
EmptyRow == [c \in {} |-> Str(<<>>)]

\* row[key] = val
RowSet(row, key, val) ==
  [c \in DOMAIN row \cup {key} |-> IF c = key THEN val ELSE row[c]]

\* url_to_run_index_to_rows is a sequence of [url, runs] in insertion order (the
\* iteration order of a dict), runs a sequence of [run_index, row] likewise.
UrlIndex(rr, url) ==
  IF \E i \in 1..Len(rr) : rr[i].url = url
  THEN CHOOSE i \in 1..Len(rr) : rr[i].url = url
  ELSE 0

RunIndex(runs, run_index) ==
  IF \E j \in 1..Len(runs) : runs[j].run_index = run_index
  THEN CHOOSE j \in 1..Len(runs) : runs[j].run_index = run_index
  ELSE 0

\* url_to_run_index_to_rows[url][run_index], before the defaultdicts create it.
GetRow(rr, url, run_index) ==
  LET i == UrlIndex(rr, url)
  IN  IF i = 0 THEN EmptyRow
      ELSE LET j == RunIndex(rr[i].runs, run_index)
           IN  IF j = 0 THEN EmptyRow ELSE rr[i].runs[j].row

\* The structure after url_to_run_index_to_rows[url][run_index] is (created and)
\* mutated into `row`.
PutRow(rr, url, run_index, row) ==
  LET i == UrlIndex(rr, url)
      entry == [run_index |-> run_index, row |-> row]
  IN  IF i = 0 THEN Append(rr, [url |-> url, runs |-> <<entry>>])
      ELSE LET j == RunIndex(rr[i].runs, run_index)
               runs == IF j = 0 THEN Append(rr[i].runs, entry)
                       ELSE [rr[i].runs EXCEPT ![j] = entry]
           IN  [rr EXCEPT ![i] = [url |-> url, runs |-> runs]]

NoError == [expected |-> Str(<<>>), found |-> <<>>, metric |-> "", run_index |-> 0]

\* The locals of get_run_results before its loop.
InitialAgg ==
  [run_results |-> <<>>,
   fieldnames |-> {"page_name", "run_index", "trace_url"},
   stats |-> [n \in {} |-> 0],
   status |-> "ok",
   error |-> NoError]

\* A variant of skipped that forgets the count test.
skipped_avg_only(histogram) == histogram.avg = <<>>

\* The two `continue` tests at the head of the loop body.
skipped(histogram) ==
  \/ histogram.avg = <<>>
  \/ IntOf(histogram.count) < 1

\* The Subject: histogram['stories'].split("(")[0].strip()
url_of(histogram) == Strip(SplitFirst(histogram.stories))

\* stats['more_than_one_value'][metric_name] += 1 when count > '1' (as strings).
track(stats, histogram) ==
  IF StrGt(histogram.count, <<"1">>)
  THEN [n \in DOMAIN stats \cup {histogram.name} |->
          IF n = histogram.name
          THEN (IF n \in DOMAIN stats THEN stats[n] ELSE 0) + 1
          ELSE stats[n]]
  ELSE stats

\* A variant of mismatch that keeps the first trace_url silently.
mismatch_never(metrics_dict, trace_url) == FALSE

\* The trace_url test of the loop body on the row `metrics_dict`: TRUE when
\* TraceUrlMismatch is raised.
mismatch(metrics_dict, trace_url) ==
  /\ "trace_url" \in DOMAIN metrics_dict
  /\ metrics_dict["trace_url"] # Str(trace_url)

\* A variant of fold_histogram in which a later trace_url overwrites the row's.
fold_histogram_overwrite(st, histogram) ==
  IF skipped(histogram) THEN st
  ELSE
    LET url == url_of(histogram)
        run_index == IntOf(histogram.storysetRepeats)
        d0 == GetRow(st.run_results, url, run_index)
        d1 == RowSet(d0, "page_name", Str(url))
        d2 == RowSet(d1, histogram.name, Flt(FloatOf(histogram.avg)))
        d3 == RowSet(d2, "trace_url", Str(histogram.traceUrls))
    IN  [st EXCEPT !.run_results = PutRow(@, url, run_index, d3),
                   !.stats = track(st.stats, histogram),
                   !.fieldnames = @ \cup {histogram.name}]

\* One iteration of the for loop of get_run_results on the locals `st`.
fold_histogram(st, histogram) ==
  IF skipped(histogram) THEN st
  ELSE
    LET metric_name == histogram.name
        url == url_of(histogram)
        run_index == IntOf(histogram.storysetRepeats)
        stats == track(st.stats, histogram)
        metric_value == FloatOf(histogram.avg)
        d0 == GetRow(st.run_results, url, run_index)
        d1 == RowSet(d0, "page_name", Str(url))
        d2 == RowSet(d1, metric_name, Flt(metric_value))
        trace_url == histogram.traceUrls
    IN  IF mismatch(d2, trace_url)
        THEN [st EXCEPT !.run_results = PutRow(@, url, run_index, d2),
                        !.stats = stats,
                        !.status = "raised",
                        !.error = [expected |-> d2["trace_url"], found |-> trace_url,
                                   metric |-> metric_name, run_index |-> run_index]]
        ELSE [st EXCEPT !.run_results =
                          PutRow(@, url, run_index,
                                 IF "trace_url" \in DOMAIN d2 THEN d2
                                 ELSE RowSet(d2, "trace_url", Str(trace_url))),
                        !.stats = stats,
                        !.fieldnames = @ \cup {metric_name}]

\* The for loop from histogram i on; it stops where TraceUrlMismatch is raised.
RECURSIVE fold_from(_, _, _)
fold_from(st, histograms, i) ==
  IF i > Len(histograms) \/ st.status = "raised" THEN st
  ELSE fold_from(fold_histogram(st, histograms[i]), histograms, i + 1)

\* get_run_results(ct_histograms): the locals at the return or at the raise.
get_run_results(histograms) == fold_from(InitialAgg, histograms, 1)

-----------------------------------------------------------------------------
(* write_results_to_csv and the csv.DictWriter.                            *)

\* run_results.values() then run_index_to_metrics.values(): the rows in order.
RECURSIVE rows_of_runs(_)
rows_of_runs(runs) ==
  IF runs = <<>> THEN <<>> ELSE <<Head(runs).row>> \o rows_of_runs(Tail(runs))

RECURSIVE all_rows(_)
all_rows(rr) ==
  IF rr = <<>> THEN <<>> ELSE rows_of_runs(Head(rr).runs) \o all_rows(Tail(rr))

\* The text DictWriter writes for one value: str(value).
CellText(value) == IF value.k = "float" THEN FormatFloat(value.f) ELSE value.s

\* DictWriter._dict_to_list: the cells of a row under the header; a missing key
\* gives restval, the empty string.
cells(row, header) ==
  [c \in header |-> IF c \in DOMAIN row THEN CellText(row[c]) ELSE <<>>]

\* extrasaction='raise': writerow raises ValueError on a key outside fieldnames.
rejected(row, header) == ~(DOMAIN row \subseteq header)

NoTable == [header |-> {}, rows |-> <<>>, state |-> "absent"]

\* writeheader, then writerow for each row until one is rejected.
RECURSIVE write_rows(_, _)
write_rows(table, rows) ==
  IF rows = <<>> THEN [table EXCEPT !.state = "closed"]
  ELSE IF rejected(Head(rows), table.header) THEN [table EXCEPT !.state = "error"]
  ELSE write_rows([table EXCEPT !.rows = Append(@, cells(Head(rows), table.header))],
                  Tail(rows))

write_results_to_csv(run_results, fieldnames) ==
  write_rows([header |-> fieldnames, rows |-> <<>>, state |-> "open"],
             all_rows(run_results))

-----------------------------------------------------------------------------
(* get_histograms and string_to_list.                                      *)
(*                                                                         *)
(* A log is a sequence of lines.  A line is [tag, body]: tag "unwrap" is   *)
(* the glog preamble followed by the tag the first re.sub looks for        *)
(* ("I... exec.go:83] exec.go:83 "), tag "foreign" the preamble followed   *)
(* by another sourcefile:lineno tag, tag "none" no preamble.  A body is a  *)
(* sequence of tokens: "Merging" (text the marker pattern matches), "FR"   *)
(* ("For rows: "), "AVG" ("Avg row is"), "[" and "]", a histogram literal  *)
(* ("hA", "hB", ...: a dict display and its comma) and "x" (other text).   *)
(* In a string the preamble of a line shows as token "I83" or "Igo".       *)

Line(tag, body) == [tag |-> tag, body |-> body]

\* The histogram each dict display of the sample logs decodes to.
HistOf(tok) ==
  CASE tok = "hA" -> Hist("FCP", <<"1", ".", "5">>, <<"1">>,
                          <<"a", " ", "(", "#", "1", ")">>, <<"1">>, <<"t", "1">>)
    [] tok = "hB" -> Hist("LCP", <<"2">>, <<"1">>,
                          <<"a", " ", "(", "#", "1", ")">>, <<"1">>, <<"t", "1">>)
    [] tok = "hC" -> Hist("LCP", <<"2">>, <<"1">>,
                          <<"a", " ", "(", "#", "2", ")">>, <<"1">>, <<"t", "2">>)
    [] OTHER      -> Hist("FCP", <<"2">>, <<"1">>,
                          <<"b", " ", "(", "#", "1", ")">>, <<"2">>, <<"t", "2">>)

HistTokens == {"hA", "hB", "hC", "hD"}

\* A variant of is_marker whose pattern matches any line with text.
is_marker_loose(line) == line.body # <<>>

\* re.search('Merging \d+ csv files into \d+ columns', line)
is_marker(line) == \E i \in 1..Len(line.body) : line.body[i] = "Merging"

\* The readline loop: the number of lines consumed when it ends, the marker line
\* included; 0 when EOF comes first.
RECURSIVE scan(_, _)
scan(lines, n) ==
  IF n = Len(lines) THEN 0
  ELSE IF is_marker(lines[n + 1]) THEN n + 1
  ELSE scan(lines, n + 1)

\* f.read(): the lines after the marker line.
read_rest(lines, n) == SubSeq(lines, n + 1, Len(lines))

\* re.sub('\nI.*exec\.go\:83] exec\.go\:83 ', '\n', logs): the pattern starts at
\* a "\n", so it finds the preamble of every line but the first of `logs`.
sub_unwrap(text) ==
  [i \in 1..Len(text) |->
     IF i > 1 /\ text[i].tag = "unwrap" THEN Line("none", text[i].body) ELSE text[i]]

\* re.sub('\nI.*?\.go\:\d+] .*?\.go\:\d+.*?(?=\n)', '\n', logs): the pattern
\* starts at a "\n" and ends before a "\n"; `nl` tells whether the text ends
\* with "\n".
sub_foreign(text, nl) ==
  [i \in 1..Len(text) |->
     IF i > 1 /\ text[i].tag # "none" /\ (i < Len(text) \/ nl)
     THEN Line("none", <<>>) ELSE text[i]]

\* The characters of one line.
line_text(line) ==
  IF line.tag = "unwrap" THEN <<"I83">> \o line.body
  ELSE IF line.tag = "foreign" THEN <<"Igo">> \o line.body
  ELSE line.body

\* re.sub('\n', '', logs)
RECURSIVE join(_)
join(text) == IF text = <<>> THEN <<>> ELSE line_text(Head(text)) \o join(Tail(text))

\* The index of the first token `tok` of s at or after i, or 0.
RECURSIVE find(_, _, _)
find(s, tok, i) ==
  IF i > Len(s) THEN 0 ELSE IF s[i] = tok THEN i ELSE find(s, tok, i + 1)

\* re.findall("For rows: (.*?)Avg row is", s, re.DOTALL) from index i on: the
\* leftmost start anchor, the nearest end anchor after it, then on after that.
RECURSIVE find_all(_, _)
find_all(s, i) ==
  LET a == find(s, "FR", i)
      b == IF a = 0 THEN 0 ELSE find(s, "AVG", a + 1)
  IN  IF b = 0 THEN <<>>
      ELSE <<SubSeq(s, a + 1, b - 1)>> \o find_all(s, b + 1)

\* ast.literal_eval of a list display: "[", dict displays, "]"; anything else
\* raises.
well_formed(lit) ==
  /\ Len(lit) >= 2
  /\ lit[1] = "[" /\ lit[Len(lit)] = "]"
  /\ \A i \in 2..(Len(lit) - 1) : lit[i] \in HistTokens

string_to_list(lit) ==
  IF well_formed(lit)
  THEN [status |-> "ok", value |-> [i \in 1..(Len(lit) - 2) |-> HistOf(lit[i + 1])]]
  ELSE [status |-> "raised", value |-> <<>>]

\* The loop output.extend(string_to_list(histograms_str)); it stops at a raise.
RECURSIVE decode_all(_, _)
decode_all(lits, out) ==
  IF lits = <<>> THEN [status |-> "ok", value |-> out]
  ELSE LET r == string_to_list(Head(lits))
       IN  IF r.status = "raised" THEN [status |-> "raised", value |-> out]
           ELSE decode_all(Tail(lits), out \o r.value)

\* The string the literals are extracted from, for a file whose readline loop
\* stopped after n lines.
cleaned(f, n) ==
  LET text == read_rest(f.lines, n)
      nl == text # <<>> /\ f.eof_newline
  IN  join(sub_foreign(sub_unwrap(text), nl))

\* get_histograms(filename) on the file `f`: [status, value].
get_histograms(f) ==
  LET n == scan(f.lines, 0)
  IN  IF n = 0 THEN [status |-> "ok", value |-> <<>>]
      ELSE decode_all(find_all(cleaned(f, n), 1), <<>>)

-----------------------------------------------------------------------------
(* The parts of the state a specification does not use stay at these values. *)

XIdle ==
  /\ file = <<>> /\ eof_newline = FALSE /\ pos = 0 /\ logs = <<>> /\ logs_nl = FALSE
  /\ flat = <<>> /\ found = <<>> /\ output = <<>> /\ xpc = "idle"

AIdle ==
  /\ ct_histograms = <<>> /\ idx = 0 /\ agg = InitialAgg /\ apc = "idle"
  /\ csv_out = NoTable

PIdle ==
  /\ merge = FALSE /\ input_files = <<>> /\ cur = 0 /\ all_results = <<>>
  /\ pending = <<>> /\ disk = [p \in {} |-> NoTable] /\ writes = <<>> /\ failed = 0
  /\ ppc = "idle"

\* All sequences over set T of length at most n.
SeqsUpTo(T, n) == UNION {[1..k -> T] : k \in 0..n}

-----------------------------------------------------------------------------
(* SpecAgg: get_run_results on a sequence of histograms, one loop iteration *)
(* per step, then write_results_to_csv on what it returned.                 *)

\* <<name, avg, count>> of the sample histograms: FCP with one sample and with
\* several, LCP, a metric named as the page_name column; then the two kinds the
\* fold skips: no value, no sample.
Measures ==
  {<<"FCP", <<"1", ".", "5">>, <<"1">> >>,
   <<"FCP", <<"2">>, <<"1", "0">> >>,
   <<"LCP", <<"2">>, <<"1">> >>,
   <<"page_name", <<"1", ".", "5">>, <<"1">> >>,
   <<"FCP", <<>>, <<"1">> >>,
   <<"LCP", <<"1", ".", "5">>, <<"0">> >>}

\* <<stories, storysetRepeats>>: a page in two repetitions, and a page whose URL
\* has a parenthesis of its own.
Subjects ==
  {<< <<"a", " ", "(", "#", "1", ")">>, <<"1">> >>,
   << <<"a", " ", "(", "#", "1", ")">>, <<"2">> >>,
   << <<"b", "(", "c", ")", " ", "(", "#", "2", ")">>, <<"1">> >>}

Traces == {<<"t", "1">>, <<"t", "2">>}

Records ==
  {Hist(m[1], m[2], m[3], s[1], s[2], t) :
     m \in Measures, s \in Subjects, t \in Traces}

InitAgg ==
  /\ ct_histograms \in SeqsUpTo(Records, MaxRecs)
  /\ idx = 0
  /\ agg = InitialAgg
  /\ apc = "fold"
  /\ csv_out = NoTable
  /\ XIdle /\ PIdle

\* One iteration of `for histogram in ct_histograms`.
FoldStep ==
  /\ apc = "fold"
  /\ idx < Len(ct_histograms)
  /\ agg' = fold_histogram(agg, ct_histograms[idx + 1])
  /\ idx' = idx + 1
  /\ apc' = IF agg'.status = "raised" THEN "raised" ELSE "fold"
  /\ UNCHANGED <<ct_histograms, csv_out, xvars, pvars>>

\* return {'run_results': ..., 'fieldnames': ...}
ReturnResults ==
  /\ apc = "fold"
  /\ idx = Len(ct_histograms)
  /\ apc' = "returned"
  /\ UNCHANGED <<ct_histograms, idx, agg, csv_out, xvars, pvars>>

\* write_results_to_csv(output_file, **results)
WriteCsv ==
  /\ apc = "returned"
  /\ csv_out' = write_results_to_csv(agg.run_results, agg.fieldnames)
  /\ apc' = "written"
  /\ UNCHANGED <<ct_histograms, idx, agg, xvars, pvars>>

NextAgg == FoldStep \/ ReturnResults \/ WriteCsv

SpecAgg == InitAgg /\ [][NextAgg]_vars

-----------------------------------------------------------------------------
(* SpecExtract: get_histograms on a log, one statement per step.           *)

Tags == {"none", "unwrap", "foreign"}

Bodies ==
  {<<"Merging">>,
   <<"FR", "[", "hA">>,
   <<"hB", "]", "AVG">>,
   <<"FR", "[", "hD", "]", "AVG">>,
   <<"x">>}

Lines == {Line(tag, body) : tag \in Tags, body \in Bodies}

InitExtract ==
  /\ file \in SeqsUpTo(Lines, MaxLines)
  /\ eof_newline \in BOOLEAN
  /\ pos = 0
  /\ logs = <<>> /\ logs_nl = FALSE /\ flat = <<>> /\ found = <<>> /\ output = <<>>
  /\ xpc = "scan"
  /\ AIdle /\ PIdle

\* line = f.readline(), not at EOF; break on the marker.
ReadLine ==
  /\ xpc = "scan"
  /\ pos < Len(file)
  /\ pos' = pos + 1
  /\ xpc' = IF is_marker(file[pos + 1]) THEN "read" ELSE "scan"
  /\ UNCHANGED <<file, eof_newline, logs, logs_nl, flat, found, output, avars, pvars>>

\* line == '': return output
ReturnAtEof ==
  /\ xpc = "scan"
  /\ pos = Len(file)
  /\ xpc' = "returned"
  /\ UNCHANGED <<file, eof_newline, pos, logs, logs_nl, flat, found, output, avars, pvars>>

\* logs = f.read()
ReadRest ==
  /\ xpc = "read"
  /\ logs' = read_rest(file, pos)
  /\ logs_nl' = (logs' # <<>> /\ eof_newline)
  /\ xpc' = "sub_unwrap"
  /\ UNCHANGED <<file, eof_newline, pos, flat, found, output, avars, pvars>>

SubUnwrap ==
  /\ xpc = "sub_unwrap"
  /\ logs' = sub_unwrap(logs)
  /\ xpc' = "sub_foreign"
  /\ UNCHANGED <<file, eof_newline, pos, logs_nl, flat, found, output, avars, pvars>>

SubForeign ==
  /\ xpc = "sub_foreign"
  /\ logs' = sub_foreign(logs, logs_nl)
  /\ xpc' = "join"
  /\ UNCHANGED <<file, eof_newline, pos, logs_nl, flat, found, output, avars, pvars>>

Join ==
  /\ xpc = "join"
  /\ flat' = join(logs)
  /\ xpc' = "findall"
  /\ UNCHANGED <<file, eof_newline, pos, logs, logs_nl, found, output, avars, pvars>>

FindAll ==
  /\ xpc = "findall"
  /\ found' = find_all(flat, 1)
  /\ xpc' = "decode"
  /\ UNCHANGED <<file, eof_newline, pos, logs, logs_nl, flat, output, avars, pvars>>

\* One iteration of the loop over the literals: decode, extend or raise.
Decode ==
  /\ xpc = "decode"
  /\ found # <<>>
  /\ LET r == string_to_list(Head(found))
     IN  IF r.status = "raised"
         THEN xpc' = "raised" /\ UNCHANGED <<found, output>>
         ELSE xpc' = "decode" /\ found' = Tail(found) /\ output' = output \o r.value
  /\ UNCHANGED <<file, eof_newline, pos, logs, logs_nl, flat, avars, pvars>>

ReturnOutput ==
  /\ xpc = "decode"
  /\ found = <<>>
  /\ xpc' = "returned"
  /\ UNCHANGED <<file, eof_newline, pos, logs, logs_nl, flat, found, output, avars, pvars>>

NextExtract ==
  \/ ReadLine \/ ReturnAtEof \/ ReadRest \/ SubUnwrap \/ SubForeign
  \/ Join \/ FindAll \/ Decode \/ ReturnOutput

SpecExtract == InitExtract /\ [][NextExtract]_vars

-----------------------------------------------------------------------------
(* SpecPipe: main() on a list of input files, per-file or merge mode.      *)

\* The line the marker pattern matches, as the log producer writes it.
MarkerLine == Line("foreign", <<"Merging">>)

\* The sample logs: three without a marker line (an empty file, literals but no
\* marker, tagged lines but no marker); one metric; another metric; a literal
\* wrapped over two lines with rows of two pages; a literal that does not
\* parse; two histograms of one row with different traceUrls.
Texts ==
  {<<>>,
   <<Line("none", <<"x">>), Line("none", <<"FR", "[", "hA", "]", "AVG">>)>>,
   <<Line("foreign", <<"x">>), Line("unwrap", <<"FR", "[", "hD", "]", "AVG">>)>>,
   <<MarkerLine, Line("none", <<"FR", "[", "hA", "]", "AVG">>)>>,
   <<MarkerLine, Line("none", <<"FR", "[", "hC", "]", "AVG">>)>>,
   <<MarkerLine, Line("none", <<"FR", "[", "hA", "hB">>),
     Line("unwrap", <<"hD", "]", "AVG">>)>>,
   <<MarkerLine, Line("none", <<"FR", "[", "hA", "AVG">>)>>,
   <<MarkerLine, Line("none", <<"FR", "[", "hA", "hC", "]", "AVG">>)>>}

\* os.path.splitext(input_file)[0] of the input files.
Bases == {"x", "y"}

Files == {[base |-> b, lines |-> l, eof_newline |-> TRUE] : b \in Bases, l \in Texts}

MergedPath == "merged.csv"

\* os.path.join(args.outdir, basename + ".csv")
output_file(f) == IF f.base = "x" THEN "x.csv" ELSE "y.csv"

Paths == {"x.csv", "y.csv", MergedPath}

\* A variant of raised for a loop body that swallows the exception.
raised_swallowed(r) == FALSE

\* An exception leaves the function and main(): nothing after it runs.
raised(r) == r.status = "raised"

\* get_run_results(get_histograms(input_file)): the locals of get_run_results,
\* or status "raised" when either function raises.
results(f) ==
  LET h == get_histograms(f)
  IN  IF raised(h) THEN [InitialAgg EXCEPT !.status = "raised"]
      ELSE get_run_results(h.value)

\* A variant of merge_header that takes the fieldnames of the first file.
merge_header_first(all) == all[1].fieldnames

\* The variable `fieldnames` the DictWriter of transform_and_merge is given:
\* the loop variable of the loop over the fieldnames of all_results, after it.
merge_header(all) == all[Len(all)].fieldnames

\* The rows the nested loops of transform_and_merge hand to the writer.
RECURSIVE merge_rows(_)
merge_rows(all) ==
  IF all = <<>> THEN <<>> ELSE all_rows(Head(all).run_results) \o merge_rows(Tail(all))

InitPipe ==
  /\ merge \in BOOLEAN
  /\ input_files \in SeqsUpTo(Files, MaxFiles) \ {<<>>}
  /\ cur = 0
  /\ all_results = <<>>
  /\ pending = <<>>
  /\ disk = [p \in Paths |-> NoTable]
  /\ writes = <<>>
  /\ failed = 0
  /\ ppc = "process"
  /\ XIdle /\ AIdle

\* transform_single_file: one iteration of the loop over args.input_files.
TransformFile ==
  /\ ppc = "process" /\ ~merge
  /\ cur < Len(input_files)
  /\ LET f == input_files[cur + 1]
         r == results(f)
         table == write_results_to_csv(r.run_results, r.fieldnames)
     IN  IF raised(r)
         THEN /\ failed' = cur + 1
              /\ ppc' = "aborted"
              /\ UNCHANGED <<cur, disk, writes>>
         ELSE /\ disk' = [disk EXCEPT ![output_file(f)] = table]
              /\ writes' = Append(writes, [src |-> cur + 1, path |-> output_file(f),
                                           table |-> table])
              /\ cur' = cur + 1
              /\ ppc' = IF table.state = "error" THEN "aborted" ELSE "process"
              /\ UNCHANGED failed
  /\ UNCHANGED <<merge, input_files, all_results, pending, xvars, avars>>

\* transform_single_file: after the loop.
FinishSingle ==
  /\ ppc = "process" /\ ~merge
  /\ cur = Len(input_files)
  /\ ppc' = "done"
  /\ UNCHANGED <<merge, input_files, cur, all_results, pending, disk, writes, failed,
                 xvars, avars>>

\* transform_and_merge: one iteration of the loop over args.input_files.
CollectFile ==
  /\ ppc = "process" /\ merge
  /\ cur < Len(input_files)
  /\ LET r == results(input_files[cur + 1])
     IN  IF raised(r)
         THEN /\ failed' = cur + 1
              /\ ppc' = "aborted"
              /\ UNCHANGED <<cur, all_results>>
         ELSE /\ all_results' = Append(all_results, r)
              /\ cur' = cur + 1
              /\ UNCHANGED <<failed, ppc>>
  /\ UNCHANGED <<merge, input_files, pending, disk, writes, xvars, avars>>

\* transform_and_merge: the fieldnames loop, open(out_filename, 'w'), the
\* DictWriter and writeheader().
MergeOpen ==
  /\ ppc = "process" /\ merge
  /\ cur = Len(input_files)
  /\ LET table == [header |-> merge_header(all_results), rows |-> <<>>, state |-> "open"]
     IN  /\ disk' = [disk EXCEPT ![MergedPath] = table]
         /\ writes' = Append(writes, [src |-> 0, path |-> MergedPath, table |-> table])
  /\ pending' = merge_rows(all_results)
  /\ ppc' = "rows"
  /\ UNCHANGED <<merge, input_files, cur, all_results, failed, xvars, avars>>

\* transform_and_merge: writer.writerow(run_result) for the next row.
MergeWriteRow ==
  /\ ppc = "rows"
  /\ pending # <<>>
  /\ LET table == disk[MergedPath]
     IN  IF rejected(Head(pending), table.header)
         THEN /\ disk' = [disk EXCEPT ![MergedPath].state = "error"]
              /\ ppc' = "aborted"
              /\ UNCHANGED pending
         ELSE /\ disk' = [disk EXCEPT ![MergedPath].rows =
                                        Append(@, cells(Head(pending), table.header))]
              /\ pending' = Tail(pending)
              /\ UNCHANGED ppc
  /\ UNCHANGED <<merge, input_files, cur, all_results, writes, failed, xvars, avars>>

\* transform_and_merge: the end of the with block.
MergeClose ==
  /\ ppc = "rows"
  /\ pending = <<>>
  /\ disk' = [disk EXCEPT ![MergedPath].state = "closed"]
  /\ ppc' = "done"
  /\ UNCHANGED <<merge, input_files, cur, all_results, pending, writes, failed,
                 xvars, avars>>

NextPipe ==
  \/ TransformFile \/ FinishSingle
  \/ CollectFile \/ MergeOpen \/ MergeWriteRow \/ MergeClose

SpecPipe == InitPipe /\ [][NextPipe]_vars

-----------------------------------------------------------------------------
(* Properties of get_run_results and write_results_to_csv (SpecAgg).       *)

\* A record that is not skipped: avg is not empty and count is at least 1.
Contributes(h) == h.avg # <<>> /\ IntOf(h.count) >= 1

\* The (Subject, repetition index) pair of a record.
KeyOf(h) == <<url_of(h), IntOf(h.storysetRepeats)>>

\* Two contributing records of one (Subject, repetition index) whose traceUrls
\* differ.
Conflict(seq) ==
  \E i, j \in 1..Len(seq) :
    /\ Contributes(seq[i]) /\ Contributes(seq[j])
    /\ KeyOf(seq[i]) = KeyOf(seq[j])
    /\ seq[i].traceUrls # seq[j].traceUrls

\* The rows of a run_results structure as a set of <<url, run_index, row>>.
AsMap(rr) ==
  UNION {{<<rr[i].url, rr[i].runs[j].run_index, rr[i].runs[j].row>> :
            j \in 1..Len(rr[i].runs)} : i \in 1..Len(rr)}

\* The traceUrls of the first contributing record of seq with the given key.
FirstTrace(seq, key) ==
  LET first == CHOOSE i \in 1..Len(seq) :
                 /\ Contributes(seq[i]) /\ KeyOf(seq[i]) = key
                 /\ \A j \in 1..(i - 1) : ~(Contributes(seq[j]) /\ KeyOf(seq[j]) = key)
  IN  seq[first].traceUrls

\* C1: a record sequence with two contributing records of one (Subject,
\* repetition index) and different traceUrls never gets a result out of
\* get_run_results: the fold ends in TraceUrlMismatch; and at every point the
\* trace_url of a row is the traceUrls of the first record folded into it.
C1_MismatchRaises ==
  /\ Conflict(ct_histograms) =>
       (apc = "raised" \/ (apc = "fold" /\ idx < Len(ct_histograms)))
  /\ \A e \in AsMap(agg.run_results) :
       /\ "trace_url" \in DOMAIN e[3]
       /\ e[3]["trace_url"] =
            Str(FirstTrace(SubSeq(ct_histograms, 1, idx), <<e[1], e[2]>>))

\* C1 witness: the second of two conflicting records, the one carrying "t1",
\* raised TraceUrlMismatch with the first record's "t2" as the expected value.
C1_Witness ==
  /\ apc = "raised" /\ idx = 2
  /\ Conflict(ct_histograms)
  /\ ct_histograms[1].traceUrls = <<"t", "2">>
  /\ agg.error.expected = Str(<<"t", "2">>)
  /\ agg.error.found = <<"t", "1">>

\* The claim's own reading of a skipped record.
ClaimSkipped(h) == h.avg = <<>> \/ IntOf(h.count) < 1

Remove(seq, i) == SubSeq(seq, 1, i - 1) \o SubSeq(seq, i + 1, Len(seq))

\* C2: a record with empty avg or count < 1 has no effect: when the fold has
\* ended, its outcome (raise or return, run_results, fieldnames) is that of
\* get_run_results on the sequence without that record, and every row has a
\* record that is not skipped.
C2_SkippedNoEffect ==
  apc \in {"returned", "raised"} =>
    /\ \A i \in 1..Len(ct_histograms) :
         ClaimSkipped(ct_histograms[i]) =>
           LET other == get_run_results(Remove(ct_histograms, i))
           IN  /\ other.status = agg.status
               /\ agg.status = "ok" =>
                    /\ other.run_results = agg.run_results
                    /\ other.fieldnames = agg.fieldnames
    /\ \A e \in AsMap(agg.run_results) :
         \E i \in 1..idx :
           /\ ~ClaimSkipped(ct_histograms[i])
           /\ KeyOf(ct_histograms[i]) = <<e[1], e[2]>>

\* C2 witness: a result returned for a sequence holding a record skipped for its
\* count, a record skipped for its avg, or both kinds, next to a folded one.
C2_Witness ==
  /\ apc = "returned"
  /\ Len(ct_histograms) = MaxRecs
  /\ \E i, j \in 1..Len(ct_histograms) :
       /\ ct_histograms[i].avg # <<>> /\ IntOf(ct_histograms[i].count) < 1
       /\ ~ClaimSkipped(ct_histograms[j])
       /\ KeyOf(ct_histograms[i]) # KeyOf(ct_histograms[j])
  /\ Len(agg.run_results) = 1

Permute(seq, p) == [i \in 1..Len(seq) |-> seq[p[i]]]

\* Whether get_run_results gives the same mapping and fieldnames as `st` on
\* every permutation of seq it does not raise on.
OrderIndependent(seq, st) ==
  \A p \in Permutations(1..Len(seq)) :
    LET other == get_run_results(Permute(seq, p))
    IN  other.status = "ok" =>
          /\ AsMap(other.run_results) = AsMap(st.run_results)
          /\ other.fieldnames = st.fieldnames

\* C7 as stated: the result on a sequence that does not raise is the result on
\* each of its permutations that does not raise.
C7_OrderIndependent ==
  apc = "returned" => OrderIndependent(ct_histograms, agg)

\* No column of a row is given two values: no two contributing records of one
\* (Subject, repetition index) carry the same name with different avg values,
\* or the name of the page_name column.
SingleValued(seq) ==
  \A i, j \in 1..Len(seq) :
    (i # j /\ Contributes(seq[i]) /\ Contributes(seq[j])
       /\ KeyOf(seq[i]) = KeyOf(seq[j])) =>
      /\ seq[i].name # "page_name"
      /\ seq[i].name = seq[j].name => FloatOf(seq[i].avg) = FloatOf(seq[j].avg)

\* C7 amended: order-independence for the sequences in which no column of a row
\* is given two values.
C7_OrderIndependentSingleValued ==
  (apc = "returned" /\ SingleValued(ct_histograms)) =>
    OrderIndependent(ct_histograms, agg)

\* C7 witness: a result for two different contributing records of one row, which
\* a permutation folds in the other order.
C7_Witness ==
  /\ apc = "returned"
  /\ SingleValued(ct_histograms)
  /\ Len(ct_histograms) = 2
  /\ ct_histograms[1] # ct_histograms[2]
  /\ Contributes(ct_histograms[1]) /\ Contributes(ct_histograms[2])
  /\ KeyOf(ct_histograms[1]) = KeyOf(ct_histograms[2])

Reserved == {"page_name", "run_index", "trace_url"}

\* The (subject, repetition index, metric, value) entries of the contributing
\* records.
ClaimTriples(seq) ==
  {<<url_of(seq[i]), IntOf(seq[i].storysetRepeats), seq[i].name, FloatOf(seq[i].avg)>> :
     i \in {k \in 1..Len(seq) : Contributes(seq[k])}}

\* The entries a reader of the written table gets: per row, per metric column
\* with a non-empty cell; an empty run_index cell gives no repetition index (-1).
ReRead(table) ==
  UNION {{<<table.rows[i]["page_name"],
            IF table.rows[i]["run_index"] = <<>> THEN -1
            ELSE IntOf(table.rows[i]["run_index"]),
            c, FloatOf(table.rows[i][c])>> :
            c \in {d \in table.header \ Reserved : table.rows[i][d] # <<>>}} :
         i \in 1..Len(table.rows)}

\* C4: round trip: the table write_results_to_csv wrote, read back, gives the
\* (subject, repetition index, metric) -> value entries of the contributing
\* records.
C4_RoundTrip ==
  (apc = "written" /\ csv_out.state = "closed") =>
    ReRead(csv_out) = ClaimTriples(ct_histograms)

\* The index of the last occurrence of character c in s, or 0.
RECURSIVE LastIndexOf(_, _, _)
LastIndexOf(s, c, i) ==
  IF i = 0 THEN 0 ELSE IF s[i] = c THEN i ELSE LastIndexOf(s, c, i - 1)

\* stories with only its trailing parenthesized annotation removed, trimmed.
ClaimSubject(stories) ==
  LET s == Strip(stories)
      open == LastIndexOf(s, "(", Len(s))
  IN  IF s # <<>> /\ s[Len(s)] = ")" /\ open > 0
      THEN Strip(SubSeq(s, 1, open - 1))
      ELSE s

\* C8: every contributing record that was folded is in the row of the Subject
\* that is its stories value less the trailing annotation, trimmed.
C8_SubjectIsStoriesLessAnnotation ==
  \A i \in 1..idx :
    (Contributes(ct_histograms[i]) /\ apc # "raised") =>
      \E e \in AsMap(agg.run_results) :
        /\ e[1] = ClaimSubject(ct_histograms[i].stories)
        /\ e[2] = IntOf(ct_histograms[i].storysetRepeats)

-----------------------------------------------------------------------------
(* Properties of get_histograms (SpecExtract).                             *)

\* The text after the marker line with every foreign line left out and every
\* other line reduced to its body.
RECURSIVE ClaimCleaned(_)
ClaimCleaned(text) ==
  IF text = <<>> THEN <<>>
  ELSE (IF Head(text).tag = "foreign" THEN <<>> ELSE Head(text).body)
       \o ClaimCleaned(Tail(text))

\* A token that is not the preamble of a line with the unwrap tag.
NotUnwrapPreamble(tok) == tok # "I83"

\* C9: in the string the literals are extracted from, no line with a foreign
\* sourcefile:lineno tag has left a character, wherever the line stood after
\* the marker (first, middle or last): apart from preambles of the unwrap tag,
\* the string is the text of the other lines, in order.
C9_ForeignLinesDeleted ==
  xpc \in {"findall", "decode", "returned", "raised"} =>
    SelectSeq(flat, NotUnwrapPreamble) = ClaimCleaned(read_rest(file, pos))

-----------------------------------------------------------------------------
(* Properties of transform_single_file and transform_and_merge (SpecPipe). *)

\* Extraction, decoding and aggregation of f completed without error.
FileOk(f) ==
  /\ get_histograms(f).status = "ok"
  /\ get_run_results(get_histograms(f).value).status = "ok"

\* The table write_results_to_csv writes for file f.
TableOf(f) ==
  write_results_to_csv(results(f).run_results, results(f).fieldnames)

\* The rows of all files in file-processing order.
RECURSIVE ClaimRows(_)
ClaimRows(files) ==
  IF files = <<>> THEN <<>>
  ELSE all_rows(results(Head(files)).run_results) \o ClaimRows(Tail(files))

RECURSIVE LastWrite(_, _)
LastWrite(ws, p) ==
  IF ws = <<>> THEN NoTable
  ELSE IF ws[Len(ws)].path = p THEN ws[Len(ws)].table
  ELSE LastWrite(SubSeq(ws, 1, Len(ws) - 1), p)

\* C5: an output is written only from input that was processed without error.
\* Merge mode: the combined output is opened only after every file was
\* processed, so with a file that fails no output exists at any point.  Per-file
\* mode: when file k fails, the outputs written are those of files 1..k-1, as
\* they were written, and none of file k or a later file.
C5_OutputsOnlyAfterSuccess ==
  /\ \A i \in 1..Len(writes) :
       IF writes[i].src = 0
       THEN /\ merge /\ cur = Len(input_files) /\ failed = 0
            /\ \A j \in 1..Len(input_files) : FileOk(input_files[j])
       ELSE ~merge /\ FileOk(input_files[writes[i].src])
  /\ (merge /\ \E j \in 1..Len(input_files) : ~FileOk(input_files[j])) =>
       (writes = <<>> /\ \A p \in Paths : disk[p] = NoTable)
  /\ (~merge /\ failed > 0) =>
       /\ ~FileOk(input_files[failed])
       /\ ppc = "aborted"
       /\ Len(writes) = failed - 1
       /\ \A j \in 1..(failed - 1) :
            /\ writes[j].src = j
            /\ writes[j].path = output_file(input_files[j])
            /\ writes[j].table = TableOf(input_files[j])
            /\ writes[j].table.state = "closed"
       /\ \A p \in Paths : disk[p] = LastWrite(writes, p)
  /\ (~merge /\ failed = 0) =>
       \A j \in 1..cur : FileOk(input_files[j])

\* C5 witness: per-file mode, the second file failed after the first was written.
C5_Witness ==
  /\ ~merge /\ failed = 2 /\ ppc = "aborted"
  /\ Len(writes) = 1
  /\ disk[output_file(input_files[1])].state = "closed"
  /\ Len(disk[output_file(input_files[1])].rows) >= 1

\* No line of f has text the marker pattern matches.
NoMarker(f) ==
  \A i \in 1..Len(f.lines) : \A k \in 1..Len(f.lines[i].body) :
    f.lines[i].body[k] # "Merging"

\* C6: for a file without a marker line get_histograms returns the empty
\* sequence and does not raise; per-file mode then writes for it the header of
\* the three pre-seeded columns and no row, and goes on to the next file.
C6_NoMarkerHeaderOnly ==
  \A i \in 1..Len(input_files) :
    NoMarker(input_files[i]) =>
      /\ get_histograms(input_files[i]) = [status |-> "ok", value |-> <<>>]
      /\ failed # i
      /\ (~merge /\ failed = 0 /\ cur >= i) =>
           /\ writes[i].src = i
           /\ writes[i].path = output_file(input_files[i])
           /\ writes[i].table =
                [header |-> {"page_name", "run_index", "trace_url"},
                 rows |-> <<>>, state |-> "closed"]
           /\ cur = i =>
                IF i < Len(input_files) THEN ppc = "process"
                ELSE ppc \in {"process", "done"}

\* C6 witness: per-file mode finished; the first file had no marker and got a
\* header-only output, the second file was processed after it and got rows.
C6_Witness ==
  /\ ~merge /\ ppc = "done"
  /\ Len(input_files) = 2
  /\ NoMarker(input_files[1])
  /\ output_file(input_files[1]) # output_file(input_files[2])
  /\ disk[output_file(input_files[1])].rows = <<>>
  /\ disk[output_file(input_files[1])].state = "closed"
  /\ Len(disk[output_file(input_files[2])].rows) >= 1

\* C10: in both modes every row handed to the writer has its columns in the
\* header the writer was created with: no row is rejected and no output is left
\* partially written.
C10_RowsWithinHeader ==
  /\ \A p \in Paths : disk[p].state # "error"
  /\ ppc = "rows" =>
       \A i \in 1..Len(pending) : ~rejected(pending[i], disk[MergedPath].header)

====
